---- MODULE Spec2Model ----
(***************************************************************************)
(* SmartBookQA: the retrieval-and-answering pipeline.                      *)
(*                                                                         *)
(*   src/modules/embeddings.py   EmbeddingsGenerator                       *)
(*   src/modules/llm_handler.py  LLMHandler                                *)
(*   src/modules/vectorstore.py  VectorStore (a wrapper of a ChromaDB      *)
(*                               collection)                               *)
(*   src/modules/rag_pipeline.py RAGPipeline.query and                     *)
(*                               RAGPipeline.add_documents_to_knowledge_base*)
(*                                                                         *)
(* A text is modelled by its length in characters, an embedding vector by  *)
(* its dimension, a list of embeddings by its length and the dimension of  *)
(* its vectors, and a record id doc_{n} by the number n.  The ChromaDB     *)
(* collection is the function store from the ids it holds to the stored    *)
(* documents.                                                              *)
(***************************************************************************)
EXTENDS Naturals, Integers, Sequences, FiniteSets, TLC

VARIABLES
    env,        \* what the constructors find: libraries, credential, outcomes
    emb,        \* EmbeddingsGenerator: use_openai, openai_client, local_model
    llm,        \* LLMHandler: use_openai, openai_client, local_llm, llm_type
    top_k,      \* RAGPipeline.top_k
    store,      \* the records of the collection: id |-> document, vector
    coll,       \* the collection itself: its metadata and its dimensionality
    clears,     \* the clear_collection calls made in a row: how many, the
                \*   value the last returned, the count before the first
    ipc,        \* per ingest call: position in add_documents_to_knowledge_base
    itexts,     \* per ingest call: the argument texts
    iembs,      \* per ingest call: the local embeddings
    icount,     \* per ingest call: the local existing_count
    iids,       \* per ingest call: the local ids
    iret,       \* per ingest call: the value returned
    ibefore,    \* per ingest call: get_collection_count() when the call began
    ifresh,     \* per ingest call: no record was added or removed since the
                \*   call sampled existing_count
    qpc,        \* position of the query call
    question,   \* the argument question
    results,    \* the local search_results
    sources,    \* the local sources
    context,    \* the local context_parts
    answer,     \* what generate_answer returned
    qret,       \* what query returned (or the exception that left it)
    calls,      \* provider calls the running query has made
    qemb,       \* the local query_embeddings
    qgen,       \* the generate_answer call of the query: what the backend
                \*   did and the backends that were called
    embOut,     \* the last direct call of generate_embeddings and its value
    ansOut,     \* the last direct call of generate_answer and its value
    dimOut      \* the last direct call of get_embedding_dimension and its value

vars == <<env, emb, llm, top_k, store, coll, clears, ipc, itexts, iembs,
          icount, iids, iret, ibefore, ifresh, qpc, question, results, sources, context, answer,
          qret, calls, qemb, qgen, embOut, ansOut, dimOut>>

provVars == <<env, emb, llm>>
indexVars == <<store, coll, clears>>
ingestVars == <<ipc, itexts, iembs, icount, iids, iret, ibefore, ifresh>>
queryVars == <<qpc, question, results, sources, context, answer, qret, calls,
               qemb, qgen>>
directVars == <<embOut, ansOut, dimOut>>

(***************************************************************************)
(* Bounds of the model.                                                    *)
(***************************************************************************)
MaxCount == 3       \* ingest is not started past this many records
MaxBatch == 2       \* longest chunk list handed to one ingest
MaxTopK == 2        \* largest top_k
MaxClears == 2      \* clear_collection calls in a row that are counted

(***************************************************************************)
(* Program constants.                                                      *)
(***************************************************************************)
OpenAIDim == 1536
LocalDim == 384
SourceChars == 200
DefaultTopK == 5

Procs == {1, 2}
NoneValue == "None"
Raised == "raised"

\* Document lengths around the 200-character cut of a source passage.
DocLens == {200, 201}
\* Cosine distances the index reports, in whole units of its range [0, 2].
Distances == {0, 1, 2}
TopKs == 1..MaxTopK

Range(s) == {s[i] : i \in DOMAIN s}
SeqsUpTo(S, n) == UNION {[1..k -> S] : k \in 0..n}
Min(a, b) == IF a <= b THEN a ELSE b
EmptyStore == [i \in {} |-> 0]

(***************************************************************************)
(* What the constructors meet: the argument use_openai, the module flags   *)
(* OPENAI_AVAILABLE, SENTENCE_TRANSFORMERS_AVAILABLE, OLLAMA_AVAILABLE and *)
(* TRANSFORMERS_AVAILABLE, the credential OPENAI_API_KEY, and whether each *)
(* client or model constructor returns or raises.                          *)
(***************************************************************************)
AllEnvs ==
    [use_openai : BOOLEAN, openai_available : BOOLEAN, api_key : BOOLEAN,
     emb_client_ok : BOOLEAN, llm_client_ok : BOOLEAN,
     st_available : BOOLEAN, st_load_ok : BOOLEAN,
     ollama_available : BOOLEAN, ollama_ok : BOOLEAN,
     tf_available : BOOLEAN, tf_ok : BOOLEAN]

\* The environments of the application: initialize_components passes
\* use_openai = (OPENAI_API_KEY is set) to both constructors; here the openai
\* and transformers libraries are installed and every constructor returns.
AppEnvs ==
    {e \in AllEnvs :
        /\ e.use_openai = e.api_key
        /\ e.openai_available /\ e.emb_client_ok /\ e.llm_client_ok
        /\ e.st_load_ok /\ e.ollama_ok /\ e.tf_ok
        /\ e.tf_available = e.st_available}

(***************************************************************************)
(* EmbeddingsGenerator                                                     *)
(***************************************************************************)
\* __init__, the remote half: the flag use_openai and the client it leaves.
EmbInitRemote(e) ==
    IF e.use_openai /\ e.openai_available
    THEN IF e.api_key
         THEN IF e.emb_client_ok
              THEN [use_openai |-> TRUE, openai_client |-> TRUE]
              ELSE [use_openai |-> FALSE, openai_client |-> FALSE]
         ELSE [use_openai |-> FALSE, openai_client |-> FALSE]
    ELSE [use_openai |-> e.use_openai, openai_client |-> FALSE]

\* __init__ loading the local model whatever use_openai is.
EmbInitLocalAlways(use_openai, e) ==
    IF e.st_available THEN e.st_load_ok ELSE FALSE

\* __init__, the local half: the model is loaded only under "not self.use_openai".
EmbInitLocal(use_openai, e) ==
    IF ~use_openai
    THEN IF e.st_available THEN e.st_load_ok ELSE FALSE
    ELSE FALSE

EmbeddingsGeneratorInit(e) ==
    LET r == EmbInitRemote(e)
    IN  [use_openai |-> r.use_openai,
         openai_client |-> r.openai_client,
         local_model |-> EmbInitLocal(r.use_openai, e)]

\* What one call meets at request time: whether the remote embeddings call and
\* the local encode return or raise.
EmbRuntimes == [remote_ok : BOOLEAN, local_ok : BOOLEAN]

\* A value of generate_embeddings and its helpers: the list of n vectors of
\* one dimension, None, or (inside the class) an exception on its way up.
Vectors(n, dim) == [kind |-> "vectors", n |-> n, dim |-> dim]
NoVectors == [kind |-> "None", n |-> 0, dim |-> 0]
RaisedVectors == [kind |-> "raised", n |-> 0, dim |-> 0]

\* _generate_local_embeddings
GenerateLocalEmbeddings(g, n, rt) ==
    IF ~g.local_model THEN RaisedVectors
    ELSE IF rt.local_ok THEN Vectors(n, LocalDim) ELSE RaisedVectors

\* _generate_openai_embeddings: on an exception of the remote call, the local
\* model if there is one, else the exception again.
GenerateOpenAIEmbeddings(g, n, rt) ==
    IF rt.remote_ok THEN Vectors(n, OpenAIDim)
    ELSE IF g.local_model THEN GenerateLocalEmbeddings(g, n, rt)
    ELSE RaisedVectors

\* generate_embeddings(texts), n = len(texts): None or the vectors.
GenerateEmbeddings(g, n, rt) ==
    IF n = 0 THEN NoVectors
    ELSE LET r == IF g.use_openai /\ g.openai_client
                  THEN GenerateOpenAIEmbeddings(g, n, rt)
                  ELSE IF g.local_model
                       THEN GenerateLocalEmbeddings(g, n, rt)
                       ELSE NoVectors
         IN  IF r.kind = "raised" THEN NoVectors ELSE r

GetEmbeddingDimension(g) ==
    IF g.use_openai /\ g.openai_client THEN OpenAIDim
    ELSE IF g.local_model THEN LocalDim
    ELSE 0

(***************************************************************************)
(* LLMHandler                                                              *)
(***************************************************************************)
LLMInitRemote(e) ==
    IF e.use_openai /\ e.openai_available
    THEN IF e.api_key
         THEN IF e.llm_client_ok
              THEN [use_openai |-> TRUE, openai_client |-> TRUE,
                    llm_type |-> "openai"]
              ELSE [use_openai |-> FALSE, openai_client |-> FALSE,
                    llm_type |-> NoneValue]
         ELSE [use_openai |-> FALSE, openai_client |-> FALSE,
               llm_type |-> NoneValue]
    ELSE [use_openai |-> e.use_openai, openai_client |-> FALSE,
          llm_type |-> NoneValue]

\* __init__, the local half: Ollama first, then the transformers pipeline,
\* both only under "not self.use_openai".  The value is local_llm.
LLMInitLocal(use_openai, e) ==
    IF ~use_openai
    THEN IF e.ollama_available /\ e.ollama_ok THEN "ollama"
         ELSE IF e.tf_available /\ e.tf_ok THEN "transformers"
         ELSE NoneValue
    ELSE NoneValue

LLMHandlerInit(e) ==
    LET r == LLMInitRemote(e)
        l == LLMInitLocal(r.use_openai, e)
    IN  [use_openai |-> r.use_openai,
         openai_client |-> r.openai_client,
         local_llm |-> l,
         llm_type |-> IF l # NoneValue THEN l ELSE r.llm_type]

\* What the backend that is called does: it answers with text, answers with
\* whitespace only, or raises.
LLMRuntimes == {"text", "blank", "raise"}
AnswerText == "generated answer"
LocalError == "Error generating answer with local LLM."
NoLocalLLM == "No local LLM available."

\* _generate_openai_answer turning the exception into the fixed string, as
\* _generate_local_answer does.
GenerateOpenAIAnswerSoft(rt) ==
    IF rt = "raise" THEN "Error generating answer with local LLM."
    ELSE IF rt = "text" THEN "generated answer" ELSE ""

\* _generate_openai_answer: the stripped content, or the exception again.
GenerateOpenAIAnswer(rt) ==
    IF rt = "raise" THEN Raised
    ELSE IF rt = "text" THEN AnswerText ELSE ""

\* _generate_local_answer letting the exception of the backend out.
GenerateLocalAnswerRaising(h, rt) ==
    IF h.llm_type \in {"ollama", "transformers"}
    THEN IF rt = "raise" THEN Raised
         ELSE IF rt = "text" THEN AnswerText ELSE ""
    ELSE NoLocalLLM

\* _generate_local_answer: an exception of the backend becomes a fixed string.
GenerateLocalAnswer(h, rt) ==
    IF h.llm_type \in {"ollama", "transformers"}
    THEN IF rt = "raise" THEN LocalError
         ELSE IF rt = "text" THEN AnswerText ELSE ""
    ELSE NoLocalLLM

\* generate_answer(question, context, max_tokens); noq and noctx say that the
\* question, the context is empty.
GenerateAnswer(h, noq, noctx, rt) ==
    IF noq \/ noctx THEN NoneValue
    ELSE LET r == IF h.use_openai /\ h.openai_client
                  THEN GenerateOpenAIAnswer(rt)
                  ELSE IF h.local_llm # NoneValue
                       THEN GenerateLocalAnswer(h, rt)
                       ELSE NoneValue
         IN  IF r = Raised THEN NoneValue ELSE r

\* The backends one generate_answer calls, in the order of the calls: the
\* branch of generate_answer, then the branch of _generate_local_answer.
DispatchedBackends(h, noq, noctx) ==
    IF noq \/ noctx THEN <<>>
    ELSE IF h.use_openai /\ h.openai_client THEN <<"openai">>
    ELSE IF h.local_llm # NoneValue
         THEN IF h.llm_type \in {"ollama", "transformers"}
              THEN <<h.llm_type>>
              ELSE <<>>
    ELSE <<>>

\* is_available without the local half.
IsAvailableRemoteOnly(h) == h.use_openai /\ h.openai_client

IsAvailable(h) ==
    (h.use_openai /\ h.openai_client) \/ h.local_llm # NoneValue

(***************************************************************************)
(* VectorStore.  The collection is one the library can read and write:     *)
(* the handlers of a backend exception in get_collection_count (return 0), *)
(* delete_documents and clear_collection (return False) are not taken; the *)
(* one in add_documents is taken for an id the collection holds, and the   *)
(* one in search at any call.                                              *)
(***************************************************************************)
\* get_collection_count
GetCollectionCount(s) == Cardinality(DOMAIN s)

\* The collection get_or_create_collection creates: cosine space, and no
\* dimensionality until the first vectors are added.
NoDimension == 0
CosineSpace == "cosine"
NewCollection == [space |-> CosineSpace, dimension |-> NoDimension]

\* The records a collection.add that is not refused leaves: an id the
\* collection holds keeps its record.
AddedRecords(s, texts, embs, ids) ==
    [d \in DOMAIN s \cup Range(ids) |->
        IF d \in DOMAIN s THEN s[d]
        ELSE [document |-> texts[CHOOSE i \in DOMAIN ids : ids[i] = d],
              dim |-> embs.dim]]

\* collection.add that takes vectors of any dimension.
CollectionAddAnyDimension(s, c, texts, embs, ids, dup) ==
    IF dup = "raise" /\ Range(ids) \cap DOMAIN s # {}
    THEN [raised |-> TRUE, store |-> s, coll |-> c]
    ELSE [raised |-> FALSE,
          store |-> AddedRecords(s, texts, embs, ids),
          coll |-> [c EXCEPT !.dimension = embs.dim]]

\* collection.add of the records ids[i] |-> texts[i], embeddings[i] to the
\* records s of the collection c.  The ids of one batch differ.  The library
\* raises (nothing is added) for vectors whose dimension is not the
\* dimensionality of the collection, which the first add sets.  For an id
\* the collection already holds, the library, by its version, either raises
\* (nothing is added) or leaves the stored record and adds the others: dup
\* is "raise" or "ignore".
CollectionAdd(s, c, texts, embs, ids, dup) ==
    IF c.dimension \notin {NoDimension, embs.dim}
    THEN [raised |-> TRUE, store |-> s, coll |-> c]
    ELSE IF dup = "raise" /\ Range(ids) \cap DOMAIN s # {}
    THEN [raised |-> TRUE, store |-> s, coll |-> c]
    ELSE [raised |-> FALSE,
          store |-> AddedRecords(s, texts, embs, ids),
          coll |-> [c EXCEPT !.dimension = embs.dim]]

\* add_documents(texts, embeddings, metadatas, ids): ok is the value returned.
AddDocuments(s, c, texts, embs, ids, dup) ==
    IF Len(texts) = 0 \/ embs.kind # "vectors" \/ embs.n = 0
    THEN [ok |-> FALSE, store |-> s, coll |-> c]
    ELSE IF Len(texts) # embs.n
    THEN [ok |-> FALSE, store |-> s, coll |-> c]
    ELSE LET r == CollectionAdd(s, c, texts, embs, ids, dup)
         IN  [ok |-> ~r.raised, store |-> r.store, coll |-> r.coll]

\* The lists collection.query can give for n_results on a collection it can
\* read: the nearest Min(n_results, count) records, nearest first.
QueryHits(s, n_results) ==
    LET n == Min(n_results, GetCollectionCount(s))
    IN  {r \in [1..n -> [id : DOMAIN s, document : DocLens, distance : Distances]] :
            /\ \A i \in 1..n : r[i].document = s[r[i].id].document
            /\ \A i, j \in 1..n : i < j =>
                  r[i].id # r[j].id /\ r[i].distance <= r[j].distance}

\* search(query_embedding, n_results): the formatted results, or [] when the
\* backend call raised (as it does, among other causes, for a query vector
\* whose dimension is not the dimensionality of the collection).
Search(s, n_results) == QueryHits(s, n_results) \cup {<<>>}

\* clear_collection that creates the collection again and not deletes it.
ClearCollectionKeeping(s) == s

\* clear_collection: the collection is deleted and created again, with the
\* metadata of the first creation; the value returned is True.
ClearCollection(s) == EmptyStore
RecreatedCollection == [space |-> "cosine", dimension |-> NoDimension]
ClearReturn == "True"

\* delete_documents(ids)
DeleteDocuments(s, ids) == [d \in DOMAIN s \ ids |-> s[d]]

(***************************************************************************)
(* RAGPipeline                                                             *)
(***************************************************************************)
\* GenerateIds numbering a batch from past its own end: existing_count + len(texts) + i.
GenerateIdsPastBatch(existing_count, n) ==
    [i \in 1..n |-> existing_count + n + (i - 1)]

\* ids = [f"doc_{existing_count + i}" for i in range(len(texts))]
GenerateIds(existing_count, n) == [i \in 1..n |-> existing_count + (i - 1)]

\* The questions: None, "", whitespace, a question, and a value that is not a
\* string (and is truthy, such as 42).
NoneQuestion == "<None>"
NonStringQuestion == "<42>"
Questions == {NoneQuestion, "", "   ", "What is X?", NonStringQuestion}
IsString(q) == q \notin {NoneQuestion, NonStringQuestion}
Falsy(q) == q \in {NoneQuestion, ""}
Strip(q) == IF q = "   " THEN "" ELSE q

\* Validate without the strip(): "if not question".
ValidateNoStrip(q) ==
    IF Falsy(q) THEN "blank"
    ELSE IF ~IsString(q) THEN "raise"
    ELSE "ok"

\* "if not question or not question.strip()", which stands before the try:
\* "blank", "ok", or "raise" when question has no strip().
Validate(q) ==
    IF Falsy(q) THEN "blank"
    ELSE IF ~IsString(q) THEN "raise"
    ELSE IF Falsy(Strip(q)) THEN "blank"
    ELSE "ok"

\* A metadata dict is the set of its (key, value) pairs.
Keys(m) == {kv[1] : kv \in m}

QueryResult(a, srcs, meta) ==
    [kind |-> "result", answer |-> a, sources |-> srcs, metadata |-> meta]
\* The exception that leaves query has no result.
Escaped(exc) ==
    [kind |-> "exception", answer |-> exc, sources |-> <<>>, metadata |-> {}]
NoResult == [kind |-> "none", answer |-> "", sources |-> <<>>, metadata |-> {}]

ValidationAnswer == "Please provide a valid question."
EmbeddingErrorAnswer == "Error generating query embedding."
NoDocumentsAnswer ==
    "No relevant documents found in the knowledge base. Please upload and process PDFs first."
GenerationErrorAnswer == "Error generating answer. Please try again."

ValidationResult == QueryResult(ValidationAnswer, <<>>, {})
EmbeddingErrorResult == QueryResult(EmbeddingErrorAnswer, <<>>, {})
NoDocumentsResult == QueryResult(NoDocumentsAnswer, <<>>, {})
\* GenerationErrorResult dropping the sources, as the other early returns do.
GenerationErrorResultNoSources(srcs) == QueryResult(GenerationErrorAnswer, <<>>, {})
GenerationErrorResult(srcs) == QueryResult(GenerationErrorAnswer, srcs, {})
\* SuccessResult reporting top_k as the number of sources.
SuccessResultCountsTopK(a, srcs, k) ==
    QueryResult(a, srcs, {<<"num_sources", k>>, <<"top_k", k>>})
SuccessResult(a, srcs, k) ==
    QueryResult(a, srcs, {<<"num_sources", Len(srcs)>>, <<"top_k", k>>})

\* SourceText cutting a text of SourceChars characters too.
SourceTextFromLimit(doc) ==
    IF doc >= SourceChars
    THEN [chars |-> SourceChars, ellipsis |-> TRUE]
    ELSE [chars |-> doc, ellipsis |-> FALSE]

\* doc_text[:200] + "..." if len(doc_text) > 200 else doc_text: the number of
\* leading characters of the document that are kept, and whether "..."
\* follows them.
SourceText(doc) ==
    IF doc > SourceChars
    THEN [chars |-> SourceChars, ellipsis |-> TRUE]
    ELSE [chars |-> doc, ellipsis |-> FALSE]

\* The characters of "...", and the length of a source text.
EllipsisChars == 3
SourceLen(t) == t.chars + (IF t.ellipsis THEN EllipsisChars ELSE 0)

\* similarity = 1 - distance if distance is not None else 0; round(similarity,
\* 3) leaves a whole number.  NoDistance stands for the distance None, which
\* search gives when the library's answer has no distances; collection.query
\* is called without include, and then the answer always has them.
NoDistance == -1
Similarity(distance) == IF distance # NoDistance THEN 1 - distance ELSE 0

AssembleSources(res) ==
    [i \in DOMAIN res |->
        [text |-> SourceText(res[i].document),
         similarity |-> Similarity(res[i].distance)]]

\* AssembleContext counting the blocks from 0.
AssembleContextFromZero(res) ==
    [i \in DOMAIN res |-> [label |-> i - 1, text |-> res[i].document]]

\* context_parts: "[Source i] <doc_text>" for enumerate(search_results, 1);
\* "\n\n".join keeps the blocks and their order.
AssembleContext(res) ==
    [i \in DOMAIN res |-> [label |-> i, text |-> res[i].document]]

\* AfterRetrieve without the check of an empty result list.
AfterRetrieveNoCheck(res) == "ASSEMBLE"

\* "if not search_results: return {...}": where query goes after the search.
AfterRetrieve(res) == IF res = <<>> THEN "DONE" ELSE "ASSEMBLE"

\* "if not answer: return {...}" and the final return.
AfterGenerate(a, srcs, k) ==
    IF a \in {NoneValue, ""}
    THEN GenerationErrorResult(srcs)
    ELSE SuccessResult(a, srcs, k)

NoCalls == [embed |-> 0, search |-> 0, generate |-> 0]

\* No clear_collection call is on record.
NoClears == [n |-> 0, ret |-> NoneValue, before |-> 0]

\* The query has not called generate_answer.
NoGenerate == [rt |-> "text", backends |-> <<>>]

\* No direct call of generate_embeddings, of generate_answer, is on record.
NoEmbedCall ==
    [called |-> FALSE, n |-> 0,
     rt |-> [remote_ok |-> TRUE, local_ok |-> TRUE], out |-> NoVectors]
NoAnswerCall ==
    [called |-> FALSE, noq |-> FALSE, noctx |-> FALSE, rt |-> "text",
     out |-> NoneValue, backends |-> <<>>]
NoDimensionCall == [called |-> FALSE, out |-> 0]

(***************************************************************************)
(* The state after construction: the providers as their constructors leave *)
(* them in an environment of envs, top_k one of ks, an empty collection,    *)
(* no call running.                                                        *)
(***************************************************************************)
InitIn(envs, ks) ==
    /\ env \in envs
    /\ emb = EmbeddingsGeneratorInit(env)
    /\ llm = LLMHandlerInit(env)
    /\ top_k \in ks
    /\ store = EmptyStore
    /\ coll = NewCollection
    /\ clears = NoClears
    /\ ipc = [p \in Procs |-> "idle"]
    /\ itexts = [p \in Procs |-> <<>>]
    /\ iembs = [p \in Procs |-> NoVectors]
    /\ icount = [p \in Procs |-> 0]
    /\ iids = [p \in Procs |-> <<>>]
    /\ iret = [p \in Procs |-> NoneValue]
    /\ ibefore = [p \in Procs |-> 0]
    /\ ifresh = [p \in Procs |-> FALSE]
    /\ qpc = "idle"
    /\ question = NoneQuestion
    /\ results = <<>>
    /\ sources = <<>>
    /\ context = <<>>
    /\ answer = NoneValue
    /\ qret = NoResult
    /\ calls = NoCalls
    /\ qemb = NoVectors
    /\ qgen = NoGenerate
    /\ embOut = NoEmbedCall
    /\ ansOut = NoAnswerCall
    /\ dimOut = NoDimensionCall

Quiet == qpc = "idle" /\ \A p \in Procs : ipc[p] = "idle"

\* Every other ingest call that has sampled existing_count has sampled it
\* from a collection that has changed since.
Stale(p, changed) ==
    [q \in Procs |-> IF q # p /\ changed THEN FALSE ELSE ifresh[q]]

(***************************************************************************)
(* add_documents_to_knowledge_base(texts, metadatas), call p               *)
(***************************************************************************)
IngestCall(p, texts) ==
    /\ ipc[p] = "idle"
    /\ GetCollectionCount(store) + Len(texts) <= MaxCount
    /\ ipc' = [ipc EXCEPT ![p] = "embed"]
    /\ itexts' = [itexts EXCEPT ![p] = texts]
    /\ ibefore' = [ibefore EXCEPT ![p] = GetCollectionCount(store)]
    /\ clears' = NoClears
    /\ UNCHANGED <<provVars, top_k, store, coll, iembs, icount, iids, iret,
                   ifresh, queryVars, directVars>>

\* embeddings = generate_embeddings(texts); "if not embeddings: return False"
IngestEmbed(p) ==
    /\ ipc[p] = "embed"
    /\ \E rt \in EmbRuntimes :
          LET r == GenerateEmbeddings(emb, Len(itexts[p]), rt)
          IN  /\ iembs' = [iembs EXCEPT ![p] = r]
              /\ IF r.kind = "None" \/ r.n = 0
                 THEN /\ iret' = [iret EXCEPT ![p] = "False"]
                      /\ ipc' = [ipc EXCEPT ![p] = "done"]
                 ELSE /\ iret' = iret
                      /\ ipc' = [ipc EXCEPT ![p] = "count"]
    /\ UNCHANGED <<provVars, top_k, indexVars, itexts, icount, iids, ibefore,
                   ifresh, queryVars, directVars>>

\* existing_count = get_collection_count(); ids = [...]
IngestCount(p) ==
    /\ ipc[p] = "count"
    /\ icount' = [icount EXCEPT ![p] = GetCollectionCount(store)]
    /\ iids' = [iids EXCEPT ![p] =
                   GenerateIds(GetCollectionCount(store), Len(itexts[p]))]
    /\ ifresh' = [ifresh EXCEPT ![p] = TRUE]
    /\ ipc' = [ipc EXCEPT ![p] = "add"]
    /\ UNCHANGED <<provVars, top_k, indexVars, itexts, iembs, iret, ibefore,
                   queryVars, directVars>>

\* success = add_documents(texts, embeddings, metadatas, ids); return success
IngestAdd(p) ==
    /\ ipc[p] = "add"
    /\ \E dup \in {"raise", "ignore"} :
          LET r == AddDocuments(store, coll, itexts[p], iembs[p], iids[p], dup)
          IN  /\ store' = r.store
              /\ coll' = r.coll
              /\ iret' = [iret EXCEPT ![p] = IF r.ok THEN "True" ELSE "False"]
              /\ ifresh' = Stale(p, r.store # store)
    /\ ipc' = [ipc EXCEPT ![p] = "done"]
    /\ clears' = NoClears
    /\ UNCHANGED <<provVars, top_k, itexts, iembs, icount, iids, ibefore,
                   queryVars, directVars>>

\* The caller has the value; the call's frame is gone.
IngestReturn(p) ==
    /\ ipc[p] = "done"
    /\ ipc' = [ipc EXCEPT ![p] = "idle"]
    /\ itexts' = [itexts EXCEPT ![p] = <<>>]
    /\ iembs' = [iembs EXCEPT ![p] = NoVectors]
    /\ icount' = [icount EXCEPT ![p] = 0]
    /\ iids' = [iids EXCEPT ![p] = <<>>]
    /\ iret' = [iret EXCEPT ![p] = NoneValue]
    /\ ibefore' = [ibefore EXCEPT ![p] = 0]
    /\ ifresh' = [ifresh EXCEPT ![p] = FALSE]
    /\ UNCHANGED <<provVars, top_k, indexVars, queryVars, directVars>>

(***************************************************************************)
(* VectorStore.delete_documents and VectorStore.clear_collection, called   *)
(* on the store the pipeline holds; the page's top_k slider.               *)
(***************************************************************************)
Delete(ids) ==
    /\ store' = DeleteDocuments(store, ids)
    /\ clears' = NoClears
    /\ ifresh' = Stale(0, store' # store)
    /\ UNCHANGED <<provVars, top_k, coll, ipc, itexts, iembs, icount, iids, iret,
                   ibefore, queryVars, directVars>>

Clear ==
    /\ clears.n < MaxClears
    /\ store' = ClearCollection(store)
    /\ coll' = RecreatedCollection
    /\ clears' = [n |-> clears.n + 1, ret |-> ClearReturn,
                  before |-> IF clears.n = 0 THEN GetCollectionCount(store)
                             ELSE clears.before]
    /\ ifresh' = Stale(0, store' # store)
    /\ UNCHANGED <<provVars, top_k, ipc, itexts, iembs, icount, iids, iret,
                   ibefore, queryVars, directVars>>

\* A new session of the application in the environment e:
\* initialize_components builds the providers and a pipeline with top_k = 5
\* again; get_or_create_collection finds the persisted collection.
Restart(e) ==
    /\ e # env
    /\ env' = e
    /\ emb' = EmbeddingsGeneratorInit(e)
    /\ llm' = LLMHandlerInit(e)
    /\ top_k' = DefaultTopK
    /\ clears' = NoClears
    /\ UNCHANGED <<store, coll, ingestVars, queryVars, directVars>>

\* st.session_state.rag_pipeline.top_k = top_k
SetTopK(k) ==
    /\ top_k # k
    /\ top_k' = k
    /\ UNCHANGED <<provVars, indexVars, ingestVars, queryVars, directVars>>

(***************************************************************************)
(* query(question, max_tokens).  generate_embeddings, search and           *)
(* generate_answer catch every exception of their own, so nothing raises   *)
(* inside the try of query and its handler (lines 135-141, which returns   *)
(* the exception's message, no sources and empty metadata) has no step     *)
(* here; the check of the question stands before the try.                  *)
(***************************************************************************)
QueryCall(q) ==
    /\ qpc = "idle"
    /\ qpc' = "VALIDATE"
    /\ question' = q
    /\ clears' = NoClears
    /\ UNCHANGED <<provVars, top_k, store, coll, ingestVars, results, sources,
                   context, answer, qret, calls, qemb, qgen, directVars>>

\* The check of the question, before the try.
QueryValidate ==
    /\ qpc = "VALIDATE"
    /\ LET v == Validate(question)
       IN  IF v = "ok"
           THEN qpc' = "EMBED" /\ qret' = qret
           ELSE /\ qpc' = "DONE"
                /\ qret' = IF v = "blank" THEN ValidationResult
                           ELSE Escaped("AttributeError")
    /\ UNCHANGED <<provVars, top_k, indexVars, ingestVars, question, results,
                   sources, context, answer, calls, qemb, qgen, directVars>>

\* Step 1: generate_embeddings([question])
QueryEmbed ==
    /\ qpc = "EMBED"
    /\ calls' = [calls EXCEPT !.embed = @ + 1]
    /\ \E rt \in EmbRuntimes :
          LET r == GenerateEmbeddings(emb, 1, rt)
          IN  /\ qemb' = r
              /\ IF r.kind = "None" \/ r.n = 0
                 THEN qpc' = "DONE" /\ qret' = EmbeddingErrorResult
                 ELSE qpc' = "RETRIEVE" /\ qret' = qret
    /\ UNCHANGED <<provVars, top_k, indexVars, ingestVars, question, results,
                   sources, context, answer, qgen, directVars>>

\* Step 2: search(query_embedding, n_results = top_k)
QueryRetrieve ==
    /\ qpc = "RETRIEVE"
    /\ calls' = [calls EXCEPT !.search = @ + 1]
    /\ \E res \in Search(store, top_k) :
          /\ results' = res
          /\ qpc' = AfterRetrieve(res)
          /\ qret' = IF AfterRetrieve(res) = "DONE"
                     THEN NoDocumentsResult ELSE qret
    /\ UNCHANGED <<provVars, top_k, indexVars, ingestVars, question, sources,
                   context, answer, qemb, qgen, directVars>>

\* QueryAssemble that keeps the number of results as the pipeline's top_k.
QueryAssembleSettingTopK ==
    /\ qpc = "ASSEMBLE"
    /\ sources' = AssembleSources(results)
    /\ context' = AssembleContext(results)
    /\ qpc' = "GENERATE"
    /\ top_k' = Len(results)
    /\ UNCHANGED <<provVars, indexVars, ingestVars, question, results,
                   answer, qret, calls, qemb, qgen, directVars>>

\* Step 3: the loop over search_results
QueryAssemble ==
    /\ qpc = "ASSEMBLE"
    /\ sources' = AssembleSources(results)
    /\ context' = AssembleContext(results)
    /\ qpc' = "GENERATE"
    /\ UNCHANGED <<provVars, top_k, indexVars, ingestVars, question, results,
                   answer, qret, calls, qemb, qgen, directVars>>

\* Steps 4 and 5: generate_answer(question, context, max_tokens) and the return
QueryGenerate ==
    /\ qpc = "GENERATE"
    /\ calls' = [calls EXCEPT !.generate = @ + 1]
    /\ \E rt \in LLMRuntimes :
          LET a == GenerateAnswer(llm, Falsy(question), context = <<>>, rt)
          IN  /\ answer' = a
              /\ qret' = AfterGenerate(a, sources, top_k)
              /\ qgen' = [rt |-> rt,
                          backends |-> DispatchedBackends(
                                           llm, Falsy(question), context = <<>>)]
    /\ qpc' = "DONE"
    /\ UNCHANGED <<provVars, top_k, indexVars, ingestVars, question, results,
                   sources, context, qemb, directVars>>

\* The caller has the result; the call's frame is gone.
QueryReturn ==
    /\ qpc = "DONE"
    /\ qpc' = "idle"
    /\ question' = NoneQuestion
    /\ results' = <<>>
    /\ sources' = <<>>
    /\ context' = <<>>
    /\ answer' = NoneValue
    /\ qret' = NoResult
    /\ calls' = NoCalls
    /\ qemb' = NoVectors
    /\ qgen' = NoGenerate
    /\ UNCHANGED <<provVars, top_k, indexVars, ingestVars, directVars>>

(***************************************************************************)
(* A direct call of generate_embeddings on n texts, one of                 *)
(* generate_answer with a question and a context that are empty or not,    *)
(* and one of get_embedding_dimension.                                     *)
(* The record of the last direct call only is kept.                        *)
(***************************************************************************)
EmbedCall(n, rt) ==
    /\ embOut' = [called |-> TRUE, n |-> n, rt |-> rt,
                  out |-> GenerateEmbeddings(emb, n, rt)]
    /\ ansOut' = NoAnswerCall
    /\ dimOut' = NoDimensionCall
    /\ UNCHANGED <<provVars, top_k, indexVars, ingestVars, queryVars>>

AnswerCall(noq, noctx, rt) ==
    /\ ansOut' = [called |-> TRUE, noq |-> noq, noctx |-> noctx, rt |-> rt,
                  out |-> GenerateAnswer(llm, noq, noctx, rt),
                  backends |-> DispatchedBackends(llm, noq, noctx)]
    /\ embOut' = NoEmbedCall
    /\ dimOut' = NoDimensionCall
    /\ UNCHANGED <<provVars, top_k, indexVars, ingestVars, queryVars>>

\* get_embedding_dimension(), as the status page calls it.
DimensionCall ==
    /\ dimOut' = [called |-> TRUE, out |-> GetEmbeddingDimension(emb)]
    /\ embOut' = NoEmbedCall
    /\ ansOut' = NoAnswerCall
    /\ UNCHANGED <<provVars, top_k, indexVars, ingestVars, queryVars>>

(***************************************************************************)
(* Spec: one session of the application; its calls do not overlap.         *)
(***************************************************************************)
Init == InitIn(AppEnvs, TopKs)

Next ==
    \/ Quiet /\ \E texts \in SeqsUpTo(DocLens, MaxBatch) : IngestCall(1, texts)
    \/ IngestEmbed(1)
    \/ IngestCount(1)
    \/ IngestAdd(1)
    \/ IngestReturn(1)
    \/ Quiet /\ \E ids \in SUBSET (DOMAIN store) \ {{}} : Delete(ids)
    \/ Quiet /\ Clear
    \/ Quiet /\ \E k \in TopKs : SetTopK(k)
    \/ Quiet /\ \E q \in Questions : QueryCall(q)
    \/ QueryValidate
    \/ QueryEmbed
    \/ QueryRetrieve
    \/ QueryAssemble
    \/ QueryGenerate
    \/ QueryReturn

Spec == Init /\ [][Next]_vars

(***************************************************************************)
(* SpecConcurrent: two ingest calls on the same collection (two sessions   *)
(* of the application share the persisted collection), their steps         *)
(* interleaved, and clears of the collection between them.  No credential  *)
(* is set, the local libraries are installed, and every chunk has          *)
(* SourceChars characters.                                                 *)
(***************************************************************************)
InitConcurrent ==
    InitIn({e \in AppEnvs : ~e.api_key /\ e.st_available /\ e.ollama_available},
           {DefaultTopK})

NextConcurrent ==
    \/ \E p \in Procs, texts \in SeqsUpTo({SourceChars}, MaxBatch) :
          IngestCall(p, texts)
    \/ \E p \in Procs : IngestEmbed(p)
    \/ \E p \in Procs : IngestCount(p)
    \/ \E p \in Procs : IngestAdd(p)
    \/ \E p \in Procs : IngestReturn(p)
    \/ store # EmptyStore /\ Clear

SpecConcurrent == InitConcurrent /\ [][NextConcurrent]_vars

(***************************************************************************)
(* SpecProviders: the constructors in every environment, and direct calls  *)
(* of generate_embeddings, generate_answer and get_embedding_dimension on   *)
(* what they built.                                                        *)
(***************************************************************************)
InitProviders == InitIn(AllEnvs, {DefaultTopK})

NextProviders ==
    \/ \E n \in 0..MaxBatch, rt \in EmbRuntimes : EmbedCall(n, rt)
    \/ \E noq, noctx \in BOOLEAN, rt \in LLMRuntimes : AnswerCall(noq, noctx, rt)
    \/ DimensionCall

SpecProviders == InitProviders /\ [][NextProviders]_vars

(***************************************************************************)
(* SpecSessions: sessions of the application one after the other on the    *)
(* same persisted collection, each in an environment of its own (the       *)
(* credential is set in one and not in the next), with ingests, deletes    *)
(* and clears that do not overlap.  Every chunk has SourceChars            *)
(* characters.                                                             *)
(***************************************************************************)
InitSessions == InitIn(AppEnvs, {DefaultTopK})

NextSessions ==
    \/ Quiet /\ \E texts \in SeqsUpTo({SourceChars}, MaxBatch) :
          IngestCall(1, texts)
    \/ IngestEmbed(1)
    \/ IngestCount(1)
    \/ IngestAdd(1)
    \/ IngestReturn(1)
    \/ Quiet /\ \E e \in AppEnvs : Restart(e)
    \/ Quiet /\ \E ids \in SUBSET (DOMAIN store) \ {{}} : Delete(ids)
    \/ Quiet /\ store # EmptyStore /\ Clear

SpecSessions == InitSessions /\ [][NextSessions]_vars

(***************************************************************************)
(* The claims.                                                             *)
(***************************************************************************)

\* C1: an ingest of a non-empty chunk list whose embedding step succeeded
\* leaves the collection count exactly len(texts) above the count at the
\* start of the call (calls do not overlap).
C1_IngestAddsLen ==
    (ipc[1] = "done" /\ iembs[1].kind = "vectors" /\ Len(itexts[1]) > 0)
        => GetCollectionCount(store) = ibefore[1] + Len(itexts[1])

\* C2: the ids an ingest generates from existing_count are ids of no record
\* the collection holds when they are handed to add_documents (calls do not
\* overlap).
C2_GeneratedIdsAreNew ==
    ipc[1] = "add" => Range(iids[1]) \cap DOMAIN store = {}

\* C3: two ingest calls that have both sampled existing_count, with no record
\* added or removed since either sample, hold the same existing_count n and
\* both have generated the id doc_{n}.
C3_RacingIngestsShareIds ==
    \A p, q \in Procs :
        (p # q /\ ipc[p] = "add" /\ ipc[q] = "add" /\ ifresh[p] /\ ifresh[q])
            => /\ icount[p] = icount[q]
               /\ icount[p] \in Range(iids[p]) \cap Range(iids[q])

\* C3, its case: call 1 has added its records, and call 2, which sampled the
\* same existing_count before that, is about to submit an id now stored.
C3_Witness ==
    /\ ipc[1] = "done" /\ iret[1] = "True"
    /\ ipc[2] = "add" /\ icount[2] = icount[1]
    /\ Range(iids[1]) \cap Range(iids[2]) # {}
    /\ Range(iids[2]) \cap DOMAIN store # {}

\* C4: once the search of a query has given an empty list, the query is done,
\* its result is the "No relevant documents" answer with no sources, and
\* generate_answer has not been called.
C4_EmptySearchEndsQuery ==
    (calls.search > 0 /\ results = <<>>)
        => /\ qpc = "DONE"
           /\ qret.kind = "result"
           /\ qret.answer = NoDocumentsAnswer
           /\ qret.sources = <<>>
           /\ calls.generate = 0

\* C4, its case: the search gave nothing although the collection holds records
\* (the backend call failed).
C4_Witness ==
    /\ qpc = "DONE" /\ calls.search = 1 /\ results = <<>>
    /\ store # EmptyStore
    /\ qret.answer = NoDocumentsAnswer

\* C5: a query with a blank question (None, "", whitespace) that has passed its
\* validation is done with the validation answer and no sources, and has called
\* no provider and no search.
C5_BlankQuestionRejected ==
    (qpc \notin {"idle", "VALIDATE"} /\ question \in {NoneQuestion, "", "   "})
        => /\ qpc = "DONE"
           /\ qret.kind = "result"
           /\ qret.answer = ValidationAnswer
           /\ qret.sources = <<>>
           /\ calls = NoCalls

\* C5, its case: a whitespace-only question has been answered.
C5_Witness ==
    qpc = "DONE" /\ question = "   " /\ qret.answer = ValidationAnswer

\* C6: no exception leaves query: a query that is done has a structured result;
\* and an ingest that is done has returned True or False.
C6_NoExceptionEscapes ==
    /\ qpc = "DONE" => qret.kind = "result"
    /\ ipc[1] = "done" => iret[1] \in {"True", "False"}

\* C7: when the search gave results and generate_answer gave None or "", the
\* result has the "Error generating answer" answer and its sources are the
\* passages of all the search results, in their order.
C7_GenerationFailureKeepsSources ==
    (qpc = "DONE" /\ calls.generate > 0 /\ results # <<>>
        /\ answer \in {NoneValue, ""})
        => /\ qret.kind = "result"
           /\ qret.answer = GenerationErrorAnswer
           /\ Len(qret.sources) = Len(results)
           /\ \A i \in DOMAIN results :
                 /\ qret.sources[i].text.chars = Min(results[i].document, SourceChars)
                 /\ qret.sources[i].similarity = 1 - results[i].distance

\* C7, its case: generate_answer gave None after a search with two results.
C7_Witness ==
    /\ qpc = "DONE" /\ calls.generate = 1 /\ answer = NoneValue
    /\ Len(results) = 2 /\ Len(qret.sources) = 2

\* C8 as stated: every result of query has num_sources and top_k in its
\* metadata, num_sources being the number of its sources.
C8_EveryResultHasMetadata ==
    (qpc = "DONE" /\ qret.kind = "result")
        => /\ {"num_sources", "top_k"} \subseteq Keys(qret.metadata)
           /\ <<"num_sources", Len(qret.sources)>> \in qret.metadata

\* C8 as amended: the result of a query whose generate_answer gave an answer
\* has exactly num_sources = len(sources) and top_k in its metadata; every
\* other result of query has empty metadata.
C8_MetadataOnSuccessOnly ==
    (qpc = "DONE" /\ qret.kind = "result")
        => IF calls.generate > 0 /\ answer \notin {NoneValue, ""}
           THEN qret.metadata = {<<"num_sources", Len(qret.sources)>>,
                                 <<"top_k", top_k>>}
           ELSE qret.metadata = {}

\* C8, its case: a successful query with fewer sources than top_k.
C8_Witness ==
    /\ qpc = "DONE" /\ calls.generate = 1 /\ answer = AnswerText
    /\ Len(qret.sources) = 1 /\ top_k = 2
    /\ qret.metadata = {<<"num_sources", 1>>, <<"top_k", 2>>}

\* C9: when the constructor built a remote-first generator (the remote client
\* is active), the sentence-transformers model is installed and loads, and
\* the remote call of a generate_embeddings on n > 0 texts raises while the
\* local encode works, the call returns n vectors of the local dimension.
C9_RemoteFailureFallsBackToLocal ==
    (/\ embOut.called /\ embOut.n > 0
     /\ emb.use_openai /\ emb.openai_client
     /\ env.st_available /\ env.st_load_ok
     /\ ~embOut.rt.remote_ok /\ embOut.rt.local_ok)
        => embOut.out = Vectors(embOut.n, LocalDim)

\* C10: after both constructors, the remote provider is active only with the
\* credential present and its client initialized; and whenever it is not
\* active, an installed and loadable local provider is (for the LLM, Ollama
\* before the transformers model).
C10_LocalProviderWhenRemoteIsNot ==
    /\ (emb.use_openai /\ emb.openai_client) => (env.api_key /\ env.emb_client_ok)
    /\ (llm.use_openai /\ llm.openai_client) => (env.api_key /\ env.llm_client_ok)
    /\ (~(emb.use_openai /\ emb.openai_client)
            /\ env.st_available /\ env.st_load_ok) => emb.local_model
    /\ (~(llm.use_openai /\ llm.openai_client)
            /\ env.ollama_available /\ env.ollama_ok) => llm.local_llm = "ollama"
    /\ (~(llm.use_openai /\ llm.openai_client)
            /\ ~(env.ollama_available /\ env.ollama_ok)
            /\ env.tf_available /\ env.tf_ok) => llm.local_llm = "transformers"

\* C11 as stated: when the remote client is active, a local backend is
\* installed and initializes, and the remote call of a generate_answer raises,
\* the call gives an answer (that of the local backend), not None.
C11_RemoteFailureTriesLocal ==
    (/\ ansOut.called /\ ~ansOut.noq /\ ~ansOut.noctx
     /\ llm.use_openai /\ llm.openai_client
     /\ ansOut.rt = "raise"
     /\ \/ env.ollama_available /\ env.ollama_ok
        \/ env.tf_available /\ env.tf_ok)
        => ansOut.out # NoneValue

\* C11 as amended: when the remote client is active and the remote call of a
\* generate_answer raises, the call gives None and has called the remote
\* backend only, whichever local backends are installed; a handler with an
\* active remote client holds no local backend.
C11_RemoteFailureIsFinal ==
    /\ (llm.use_openai /\ llm.openai_client) => llm.local_llm = NoneValue
    /\ (/\ ansOut.called /\ ~ansOut.noq /\ ~ansOut.noctx
        /\ llm.use_openai /\ llm.openai_client
        /\ ansOut.rt = "raise")
           => ansOut.out = NoneValue /\ ansOut.backends = <<"openai">>

\* C11, its case: the remote call raised while Ollama is installed and starts.
C11_Witness ==
    /\ ansOut.called /\ ~ansOut.noq /\ ~ansOut.noctx
    /\ llm.use_openai /\ llm.openai_client /\ ansOut.rt = "raise"
    /\ env.ollama_available /\ env.ollama_ok
    /\ ansOut.out = NoneValue

\* C12: is_available() is False exactly when neither the remote client is
\* active nor a local backend is set; a generate_answer of a handler that is
\* not available gives None and calls no backend; one of a handler that is
\* available, with a question and a context, calls exactly one backend.
C12_AvailableIffSomeBackend ==
    /\ ~IsAvailable(llm) <=>
          (~(llm.use_openai /\ llm.openai_client) /\ llm.local_llm = NoneValue)
    /\ (ansOut.called /\ ~IsAvailable(llm))
          => ansOut.out = NoneValue /\ ansOut.backends = <<>>
    /\ (ansOut.called /\ IsAvailable(llm) /\ ~ansOut.noq /\ ~ansOut.noctx)
          => Len(ansOut.backends) = 1

\* C12, its case: generate_answer was called on a handler with no backend
\* although a local one is installed (use_openai was asked for and the openai
\* package is missing).
C12_Witness ==
    /\ ansOut.called /\ ~ansOut.noq /\ ~ansOut.noctx
    /\ ~IsAvailable(llm) /\ env.ollama_available /\ env.ollama_ok
    /\ ansOut.out = NoneValue /\ ansOut.backends = <<>>

C14_ClearIsIdempotent ==
    clears.n >= 1 =>
        /\ clears.ret = "True"
        /\ GetCollectionCount(store) = 0
        /\ coll.space = CosineSpace

\* C14, its case: a second clear_collection in a row has returned, the
\* first of them called on a collection that held records.
C14_Witness ==
    /\ clears.n >= 2 /\ clears.before > 0
    /\ clears.ret = "True"
    /\ GetCollectionCount(store) = 0
    /\ coll.dimension = NoDimension

\* C15 as stated: an ingest that returned False has left the count of the
\* collection where it was when the call began; one that returned True has
\* added its whole batch, every generated id holding its text, the count up
\* by len(texts) (calls do not overlap).
C15_IngestAllOrNothing ==
    ipc[1] = "done" =>
        /\ iret[1] \in {"True", "False"}
        /\ iret[1] = "False" => GetCollectionCount(store) = ibefore[1]
        /\ iret[1] = "True" =>
              /\ GetCollectionCount(store) = ibefore[1] + Len(itexts[1])
              /\ \A i \in DOMAIN iids[1] :
                    /\ iids[1][i] \in DOMAIN store
                    /\ store[iids[1][i]].document = itexts[1][i]

\* C16: the text of the source of a retrieved document of L characters is
\* the document when L <= 200, and its first 200 characters followed by
\* "..." (203 characters) when L > 200; the context block of the document
\* has all L characters.
C16_SourceTextCutAt200 ==
    (qpc \in {"GENERATE", "DONE"} /\ calls.search = 1 /\ results # <<>>) =>
        /\ DOMAIN sources = DOMAIN results
        /\ DOMAIN context = DOMAIN results
        /\ \A i \in DOMAIN results :
              LET L == results[i].document
              IN  /\ L <= 200 =>
                        /\ sources[i].text = [chars |-> L, ellipsis |-> FALSE]
                        /\ SourceLen(sources[i].text) = L
                  /\ L > 200 =>
                        /\ sources[i].text = [chars |-> 200, ellipsis |-> TRUE]
                        /\ SourceLen(sources[i].text) = 203
                  /\ context[i].text = L

\* C16, its case: a query has returned two sources, of a document of 200
\* characters and of one of 201.
C16_Witness ==
    /\ qpc = "DONE" /\ Len(qret.sources) = 2
    /\ {results[i].document : i \in DOMAIN results} = {200, 201}
    /\ \E i \in DOMAIN results :
          results[i].document = 200 /\ ~qret.sources[i].text.ellipsis
    /\ \E i \in DOMAIN results :
          results[i].document = 201 /\ qret.sources[i].text.ellipsis

\* C17 as stated: the similarity of every source is in [0,1]; it is 1 minus
\* the distance of the result when that is known, and 0 when it is None.
C17_SimilarityInUnitInterval ==
    (qpc \in {"GENERATE", "DONE"} /\ calls.search = 1) =>
        \A i \in DOMAIN sources :
            /\ sources[i].similarity \in 0..1
            /\ results[i].distance # NoDistance =>
                  sources[i].similarity = 1 - results[i].distance
            /\ results[i].distance = NoDistance => sources[i].similarity = 0

\* C18: after the assemble step the sources and the context blocks are as
\* many as the search results and in their order: block i has the label
\* "[Source i]", i from 1, and the whole text of result i, source i is made
\* of result i; their number N has 1 <= N <= top_k; query returns these
\* sources.
C18_SourcesFollowResults ==
    (qpc \in {"GENERATE", "DONE"} /\ calls.search = 1 /\ results # <<>>) =>
        /\ Len(sources) = Len(results)
        /\ Len(context) = Len(results)
        /\ \A i \in 1..Len(results) :
              /\ context[i] = [label |-> i, text |-> results[i].document]
              /\ sources[i].text.chars = Min(results[i].document, SourceChars)
              /\ sources[i].similarity = 1 - results[i].distance
        /\ 1 <= Len(sources) /\ Len(sources) <= top_k
        /\ qpc = "DONE" => qret.sources = sources

\* C18, its case: a query has returned as many sources as top_k, more than
\* one, of results whose documents and distances differ.
C18_Witness ==
    /\ qpc = "DONE" /\ Len(qret.sources) = top_k /\ top_k > 1
    /\ results[1].document # results[2].document
    /\ results[1].distance # results[2].distance
    /\ GetCollectionCount(store) > top_k

C20_QueryStepsInOrder ==
    /\ qpc = "DONE" => qret.kind = "result"
    /\ calls.embed <= 1 /\ calls.search <= 1 /\ calls.generate <= 1
    /\ qpc \in {"idle", "VALIDATE", "EMBED"} => calls = NoCalls
    /\ qpc = "RETRIEVE" => calls = [embed |-> 1, search |-> 0, generate |-> 0]
    /\ qpc \in {"ASSEMBLE", "GENERATE"} =>
          calls = [embed |-> 1, search |-> 1, generate |-> 0]
    /\ calls.search = 1 =>
          calls.embed = 1 /\ qemb.kind = "vectors" /\ qemb.n = 1
    /\ calls.generate = 1 => calls.search = 1 /\ results # <<>>

\* C21: no step of a query, from its call to the return of its result or
\* the exception that leaves it, changes the records of the collection,
\* their count, the collection or the pipeline's top_k; no step of an ingest
\* changes top_k.
C21_QueryLeavesIndexAndTopK ==
    [][/\ (qpc # "idle" \/ qpc' # "idle") =>
              /\ store' = store
              /\ GetCollectionCount(store') = GetCollectionCount(store)
              /\ coll' = coll
              /\ top_k' = top_k
       /\ ipc' # ipc => top_k' = top_k]_vars

\* C21, its case: a query has returned an answer with fewer sources than
\* top_k from a collection that holds records, after an ingest.
C21_Witness ==
    /\ qpc = "DONE" /\ qret.kind = "result" /\ qret.answer = AnswerText
    /\ store # EmptyStore
    /\ Len(qret.sources) = GetCollectionCount(store)
    /\ Len(qret.sources) < top_k

\* C22: in the generator every environment's constructor leaves,
\* openai_client and local_model are not both set, and
\* get_embedding_dimension() is 1536 exactly when the remote client is
\* active (use_openai and openai_client), 384 exactly when the local model
\* alone is set, and 0 when neither is set.
C22_DimensionFollowsProvider ==
    /\ ~(emb.openai_client /\ emb.local_model)
    /\ dimOut.called =>
          /\ dimOut.out = 1536 <=> (emb.use_openai /\ emb.openai_client)
          /\ dimOut.out = 384 <=> (emb.local_model /\ ~emb.openai_client)
          /\ (~emb.openai_client /\ ~emb.local_model) => dimOut.out = 0
          /\ dimOut.out \in {1536, 384, 0}

\* C22, its case: get_embedding_dimension() gave 384 for a generator that
\* was asked for the remote provider and found no credential.
C22_Witness ==
    /\ dimOut.called /\ dimOut.out = 384
    /\ env.use_openai /\ env.openai_available /\ ~env.api_key
    /\ emb.local_model /\ ~emb.openai_client

\* C22, a second case: it gave 0 for a generator with neither provider,
\* and 1536 is given in other environments.
C22_WitnessNone ==
    /\ dimOut.called /\ dimOut.out = 0
    /\ ~emb.openai_client /\ ~emb.local_model

====
